---- MODULE Spec2Model ----
(***************************************************************************)
(* Model of services/server.py: RealSenseStreamer.                         *)
(*                                                                         *)
(* One asyncio event loop runs, on a single thread, the streaming task     *)
(* (stream_to_clients), one handle_client task per connection and the main *)
(* task (start_server).  A task runs without interruption from one await   *)
(* to the next, so every action below is the code between two awaits.      *)
(* self.lock is a threading.Lock: acquiring it while it is held blocks the *)
(* thread, and with it the event loop.                                     *)
(***************************************************************************)
EXTENDS Integers, Sequences, FiniteSets, TLC

\* Bounds of the model.
NumConns == 2
MaxTicks == 2
MaxMsgs == 1
MaxDim == 3

Conn == 1..NumConns

\* What pipeline.wait_for_frames() / frames.get_*_frame() can deliver in a tick:
\* both frames, a frameset lacking one frame, or an exception (RuntimeError)
\* when no frame arrives in time or the device is gone.
FrameResults == {"frames", "no_depth", "no_color", "timeout", "device_gone"}

\* Text messages a client can send on its connection.
MsgPing == "{type:ping}"
MsgOther == "{type:status}"
MsgList == "[1]"
MsgGarbage == "ping?"
Messages == {MsgPing, MsgOther, MsgList, MsgGarbage}

VARIABLES
    clients,               \* self.clients
    lock,                  \* self.lock: "free" or "bc" (held by the streaming task)
    streaming,             \* self.streaming
    pipeline,              \* self.pipeline: "started" or "stopped"
    bc_pc,                 \* position of the streaming task
    tick,                  \* iterations of the streaming loop so far
    frames,                \* this iteration: result of wait_for_frames
    point_cloud_data,      \* this iteration: result of generate_point_cloud
    compressed_data,       \* this iteration: result of compress_point_cloud
    round,                 \* this round: each client's place in the for loop
    disconnected_clients,  \* this round: the local set of stream_to_clients
    task_pc,               \* position of each handle_client task
    conn,                  \* state of each connection
    wire,                  \* messages the server wrote to each connection, in order
    inbox,                 \* messages of each client that handle_client has yet to take
    nmsgs,                 \* messages the clients have sent so far
    main_pc,               \* position of start_server
    addr,                  \* address of each connection's websocket object
    registered,            \* history: websockets that self.clients.add was called on
    pruned,                \* history: websockets that the streaming task removed
    intrinsics,            \* self.intrinsics
    depth_frame,           \* argument of generate_point_cloud
    color_frame,           \* argument of generate_point_cloud
    built,                 \* what generate_point_cloud returned
    payload,               \* what compress_point_cloud returned
    received,              \* what a client made of the payload
    pix,                   \* one turn of the loops: pixel_y, pixel_x, depth
    point                  \* the point appended in that turn

vars == <<clients, lock, streaming, pipeline, bc_pc, tick, frames,
          point_cloud_data, compressed_data, round, disconnected_clients,
          task_pc, conn, wire, inbox, nmsgs, main_pc, addr, registered,
          pruned, intrinsics, depth_frame, color_frame, built, payload,
          received, pix, point>>

\* The variables of generate_point_cloud, compress_point_cloud and the
\* client's decoding alone.
buildvars == <<intrinsics, depth_frame, color_frame, built, payload, received,
               pix, point>>


----------------------------------------------------------------------------
\* Helpers

\* Addresses of websocket objects: as many as there can be connections.
Addr == Conn

\* id(websocket): in CPython the address of the object, unique among the
\* objects alive at the same time.
id(c) == addr[c]

Welcome(c) == [type |-> "welcome", v |-> id(c)]
Pong == [type |-> "pong", v |-> 0]
\* compressed_data of iteration t, had it been built once and kept.
BinaryFirst(t) == [type |-> "binary", v |-> 1]
\* compressed_data of iteration t, had the round sent the one before.
BinaryPrevious(t) == [type |-> "binary", v |-> t - 1]
\* compressed_data of iteration t
Binary(t) == [type |-> "binary", v |-> t]

\* json.loads(message) followed by data.get('type')
json_loads(m) ==
    CASE m = MsgPing -> [tag |-> "dict", type |-> "ping"]
      [] m = MsgOther -> [tag |-> "dict", type |-> "status"]
      [] m = MsgList -> [tag |-> "list", type |-> "-"]
      [] OTHER -> [tag |-> "JSONDecodeError", type |-> "-"]

\* What awaiting websocket.send does, by the state of the connection: the
\* message is written and the call returns ("done"), is written and the call
\* waits for the peer to drain ("suspend"), or the call raises
\* ConnectionClosed ("closed").
SendOutcomes(st) ==
    CASE st = "open" -> {"done", "suspend"}
      [] st = "stalled" -> {"suspend"}
      [] OTHER -> {"closed"}

\* A send of the binary payload can also raise another exception.
PayloadOutcomes(st) ==
    SendOutcomes(st) \cup (IF st = "open" THEN {"error"} ELSE {})

Written(o) == o \in {"done", "suspend"}

\* The thread is stuck in lock.acquire(): the holder needs this thread to
\* release the lock.
ThreadBlocked ==
    \/ bc_pc = "lock_wait"
    \/ \E c \in Conn : task_pc[c] \in {"lock_add", "lock_discard"}

\* No task is running: the event loop can resume a task.
EventLoopIdle ==
    /\ ~ThreadBlocked
    /\ bc_pc \notin {"top", "iter"}
    /\ main_pc = "gather"

Count(s, ty) == Cardinality({i \in 1..Len(s) : s[i].type = ty})


----------------------------------------------------------------------------
\* generate_point_cloud

\* The step of the two range(0, n, 2) loops.
Stride == 2

\* Raw depth of a pixel in a z16 frame; 0 is a pixel without a return.
DepthValues == {0, 1000}

\* Numbers with a fraction are kept as <<numerator, denominator>>; the
\* rounding of Python's floats is left out.
\* depth_frame.get_units(): metres per raw unit.
get_units(df) == <<1, 1000>>

\* The pixels of an array of the given shape, as <<y, x>>.
Pixels(h, w) == (0..(h - 1)) \X (0..(w - 1))

\* No frame has been delivered.
NoFrame == [height |-> 0, width |-> 0, px |-> <<>>]

\* The depth frames: every array of every shape up to MaxDim x MaxDim.
DepthFrames ==
    UNION { { [height |-> h, width |-> w, px |-> f] :
                 f \in [Pixels(h, w) -> DepthValues] } :
            h \in 1..MaxDim, w \in 1..MaxDim }

\* The bgr8 value of pixel (y, x) in two pictures; no two pixels of a
\* picture have the same colour.
BGRPictures == {"ramp", "inverse"}
ColorAt(pic, y, x) ==
    IF pic = "ramp" THEN <<10 * y + x, 100 + x, 200 + y>>
    ELSE <<255 - (10 * y + x), y, 255>>

\* The colour frames: both pictures in every shape up to MaxDim x MaxDim.
ColorFrames ==
    { [height |-> h, width |-> w,
       px |-> [p \in Pixels(h, w) |-> ColorAt(pic, p[1], p[2])]] :
      h \in 1..MaxDim, w \in 1..MaxDim, pic \in BGRPictures }

\* self.intrinsics: None until setup_realsense has set it.
NoIntrinsics == [set |-> FALSE, fx |-> 0, fy |-> 0, ppx |-> 0, ppy |-> 0]
Calibration == [set |-> TRUE, fx |-> 600, fy |-> 600, ppx |-> 320, ppy |-> 240]
IntrinsicsValues == {NoIntrinsics, Calibration}

\* time.time()
Timestamps == {1700000000, 1700000001}

\* cv2.cvtColor(color_image, cv2.COLOR_BGR2RGB)
BGR2RGB(t) == <<t[3], t[2], t[1]>>
cvtColor(image) ==
    [image EXCEPT !.px = [p \in DOMAIN image.px |-> BGR2RGB(image.px[p])]]

\* list(range(0, n, 2))
Range(n) == [i \in 1..((n + Stride - 1) \div Stride) |-> (i - 1) * Stride]

\* if depth > 0
HasDepthAlways(depth) == TRUE
HasDepth(depth) == depth > 0

\* As Unproject, had the principal point been left out.
UnprojectFromCorner(intr, pixel_y, pixel_x, depth, depth_scale) ==
    LET z == <<depth * depth_scale[1], depth_scale[2]>>
    IN  <<<<pixel_x * z[1], z[2] * intr.fx>>,
          <<pixel_y * z[1], z[2] * intr.fy>>, z>>

\* Lines 74-89: the point of pixel (pixel_y, pixel_x) with raw depth depth.
Unproject(intr, pixel_y, pixel_x, depth, depth_scale) ==
    LET depth_meters == <<depth * depth_scale[1], depth_scale[2]>>
        z == depth_meters
        x_3d == <<(pixel_x - intr.ppx) * z[1], z[2] * intr.fx>>
        y_3d == <<(pixel_y - intr.ppy) * z[1], z[2] * intr.fy>>
    IN  <<x_3d, y_3d, z>>

\* What generate_point_cloud can return: None, or the dict.
NotBuilt == [tag |-> "unset", points |-> <<>>, colors |-> <<>>, timestamp |-> 0]
None == [tag |-> "None", points |-> <<>>, colors |-> <<>>, timestamp |-> 0]
Dict(points, colors, now) ==
    [tag |-> "dict", points |-> points, colors |-> colors, timestamp |-> now]

\* The nested for loops from turn k on, the turns being the pixels (y, x)
\* for y in range(0, height, 2), x in range(0, width, 2) in that order, with
\* the lists built so far.  The loops end in an exception (None) when a
\* pixel with depth needs self.intrinsics and it is None (AttributeError),
\* or needs a pixel that color_image does not have (IndexError).
RECURSIVE Loop(_, _, _, _, _, _, _)
Loop(depth_image, color_image, depth_scale, intr, k, points, colors) ==
    LET ys == Range(depth_image.height)
        xs == Range(depth_image.width)
        y == ys[((k - 1) \div Len(xs)) + 1]
        x == xs[((k - 1) % Len(xs)) + 1]
        depth == depth_image.px[<<y, x>>]
    IN  IF k > Len(ys) * Len(xs) THEN
           [raised |-> FALSE, points |-> points, colors |-> colors]
        ELSE IF ~HasDepth(depth) THEN
           Loop(depth_image, color_image, depth_scale, intr, k + 1,
                points, colors)
        ELSE IF ~intr.set \/ <<y, x>> \notin DOMAIN color_image.px THEN
           [raised |-> TRUE, points |-> points, colors |-> colors]
        ELSE
           Loop(depth_image, color_image, depth_scale, intr, k + 1,
                Append(points, Unproject(intr, y, x, depth, depth_scale)),
                Append(colors, color_image.px[<<y, x>>]))

\* The shape of the streams that setup_realsense enables.
FrameWidth == 640
FrameHeight == 480

\* Raw depths for a single pixel.
RawDepths == DepthValues \cup {1}

\* Calibrations of the colour stream.
Calibrations ==
    {Calibration, [set |-> TRUE, fx |-> 615, fy |-> 616, ppx |-> 322, ppy |-> 238]}

\* No turn of the loops has been taken.
NoPixel == [y |-> 0, x |-> 0, depth |-> 0]
NoPoint == <<>>

\* The turns of the loops over a frame of the enabled shape: every y of
\* range(0, height, 2) with every x of range(0, width, 2).
LoopTurns ==
    [y : {Range(FrameHeight)[i] : i \in DOMAIN Range(FrameHeight)},
     x : {Range(FrameWidth)[j] : j \in DOMAIN Range(FrameWidth)},
     depth : RawDepths]

\* generate_point_cloud(depth_frame, color_frame), time.time() giving now.
generate_point_cloud(df, cf, now) ==
    LET depth_image == df
        color_image == cvtColor(cf)
        depth_scale == get_units(df)
        lists == Loop(depth_image, color_image, depth_scale, intrinsics, 1,
                      <<>>, <<>>)
    IN  IF lists.raised THEN None
        ELSE Dict(lists.points, lists.colors, now)


----------------------------------------------------------------------------
\* compress_point_cloud, and the decoding in the clients

\* JSON text is kept as its sequence of tokens.  A number token holds the
\* number as <<numerator, denominator>>; the other tokens hold <<0, 1>>.
Tok(k) == [k |-> k, v |-> <<0, 1>>]

\* How json.dumps writes a float: float.__repr__, the shortest decimal text
\* that reads back as the same float.
float_repr_truncated(x) == [k |-> "float", v |-> <<x[1] \div x[2], 1>>]
float_repr(x) == [k |-> "float", v |-> x]

\* How json.dumps writes an int.
int_repr(n) == [k |-> "int", v |-> <<n, 1>>]

\* The texts of the items with ", " between them.
RECURSIVE Join(_)
Join(items) ==
    IF items = <<>> THEN <<>>
    ELSE IF Len(items) = 1 THEN items[1]
    ELSE items[1] \o <<Tok(",")>> \o Join(Tail(items))

\* A JSON array of items whose texts are given.
JsonArray(items) == <<Tok("[")>> \o Join(items) \o <<Tok("]")>>

\* json.dumps(point_cloud_data) for the dict of generate_point_cloud: the
\* keys in the order of the dict, points as arrays of three floats, colors
\* as arrays of three ints, the timestamp a float.
json_dumps(d) ==
    <<Tok("{"), Tok("points"), Tok(":")>>
    \o JsonArray([i \in 1..Len(d.points) |->
                    JsonArray([j \in 1..Len(d.points[i]) |->
                                 <<float_repr(d.points[i][j])>>])])
    \o <<Tok(","), Tok("colors"), Tok(":")>>
    \o JsonArray([i \in 1..Len(d.colors) |->
                    JsonArray([j \in 1..Len(d.colors[i]) |->
                                 <<int_repr(d.colors[i][j])>>])])
    \o <<Tok(","), Tok("timestamp"), Tok(":"),
         float_repr(<<d.timestamp, 1>>), Tok("}")>>

\* gzip.compress(data): a header, the deflated data (deflate is not
\* modelled: the member holds the data), and the length in the trailer.
gzip_compress(data) == [magic |-> "1f8b", data |-> data, isize |-> Len(data)]

\* gzip.decompress(message)
gzip_decompress(message) == message.data

\* No payload has been made.
NoPayload == [magic |-> "none", data |-> <<>>, isize |-> 0]

\* compress_point_cloud(point_cloud_data); str.encode('utf-8') changes no
\* token.
compress_point_cloud(pcd) == gzip_compress(json_dumps(pcd))

\* json.loads on a value that starts at token i: the value and the place
\* after it.  An array becomes a list, a float token a float, an int token
\* an int.
RECURSIVE ParseValue(_, _)
RECURSIVE ParseItems(_, _, _)
ParseValue(toks, i) ==
    IF toks[i].k = "[" THEN
       IF toks[i + 1].k = "]" THEN [val |-> <<>>, next |-> i + 2]
       ELSE ParseItems(toks, i + 1, <<>>)
    ELSE IF toks[i].k = "float" THEN [val |-> toks[i].v, next |-> i + 1]
    ELSE [val |-> toks[i].v[1], next |-> i + 1]
ParseItems(toks, i, acc) ==
    LET item == ParseValue(toks, i)
        list == Append(acc, item.val)
    IN  IF toks[item.next].k = ","
        THEN ParseItems(toks, item.next + 1, list)
        ELSE [val |-> list, next |-> item.next + 1]

\* json.loads on the members of an object from token i on: the dict, as a
\* function from the keys.
RECURSIVE ParseMembers(_, _, _)
ParseMembers(toks, i, acc) ==
    LET key == toks[i].k
        member == ParseValue(toks, i + 2)
        dict == (key :> member.val) @@ acc
    IN  IF toks[member.next].k = ","
        THEN ParseMembers(toks, member.next + 1, dict)
        ELSE dict

\* Nothing has been received.
NotReceived ==
    [tag |-> "unset", points |-> <<>>, colors |-> <<>>, timestamp |-> <<0, 1>>]

\* The client: json.loads(gzip.decompress(message).decode('utf-8')), then
\* the reads of 'points', 'colors' and 'timestamp'.
decode(message) ==
    LET toks == gzip_decompress(message)
        loaded == ParseMembers(toks, 2, <<>>)
    IN  [tag |-> "dict",
         points |-> loaded["points"],
         colors |-> loaded["colors"],
         timestamp |-> loaded["timestamp"]]

----------------------------------------------------------------------------
\* The server after __init__ and setup_realsense, before any task has run.
ServerInit ==
    /\ clients = {}
    /\ lock = "free"
    /\ streaming = FALSE
    /\ pipeline = "started"
    /\ bc_pc = "start"
    /\ tick = 0
    /\ frames = "none"
    /\ point_cloud_data = "unset"
    /\ compressed_data = "unset"
    /\ round = [c \in Conn |-> "-"]
    /\ disconnected_clients = {}
    /\ task_pc = [c \in Conn |-> "idle"]
    /\ conn = [c \in Conn |-> "none"]
    /\ wire = [c \in Conn |-> <<>>]
    /\ inbox = [c \in Conn |-> <<>>]
    /\ nmsgs = 0
    /\ main_pc = "gather"
    /\ addr = [c \in Conn |-> 0]
    /\ registered = {}
    /\ pruned = {}

Init ==
    /\ ServerInit
    /\ intrinsics = Calibration
    /\ depth_frame = NoFrame
    /\ color_frame = NoFrame
    /\ built = NotBuilt
    /\ payload = NoPayload
    /\ received = NotReceived
    /\ pix = NoPixel
    /\ point = NoPoint

\* generate_point_cloud is called, with any frames and with or without
\* self.intrinsics.
BuildInit ==
    /\ ServerInit
    /\ intrinsics \in IntrinsicsValues
    /\ depth_frame \in DepthFrames
    /\ color_frame \in ColorFrames
    /\ built = NotBuilt
    /\ payload = NoPayload
    /\ received = NotReceived
    /\ pix = NoPixel
    /\ point = NoPoint

\* point_cloud_data = self.generate_point_cloud(depth_frame, color_frame)
GeneratePointCloud(now) ==
    /\ built = NotBuilt
    /\ built' = generate_point_cloud(depth_frame, color_frame, now)
    /\ UNCHANGED <<clients, lock, streaming, pipeline, bc_pc, tick, frames,
                   point_cloud_data, compressed_data, round,
                   disconnected_clients, task_pc, conn, wire, inbox, nmsgs,
                   main_pc, addr, registered, pruned, intrinsics,
                   depth_frame, color_frame, payload, received, pix, point>>

\* compressed_data = self.compress_point_cloud(point_cloud_data), for a
\* point_cloud_data that is not None.
CompressPointCloud ==
    /\ built.tag = "dict"
    /\ payload = NoPayload
    /\ payload' = compress_point_cloud(built)
    /\ UNCHANGED <<clients, lock, streaming, pipeline, bc_pc, tick, frames,
                   point_cloud_data, compressed_data, round,
                   disconnected_clients, task_pc, conn, wire, inbox, nmsgs,
                   main_pc, addr, registered, pruned, intrinsics,
                   depth_frame, color_frame, built, received, pix, point>>

\* A client receives the payload and decodes it.
ReceiveMessage ==
    /\ payload # NoPayload
    /\ received = NotReceived
    /\ received' = decode(payload)
    /\ UNCHANGED <<clients, lock, streaming, pipeline, bc_pc, tick, frames,
                   point_cloud_data, compressed_data, round,
                   disconnected_clients, task_pc, conn, wire, inbox, nmsgs,
                   main_pc, addr, registered, pruned, intrinsics,
                   depth_frame, color_frame, built, payload, pix, point>>

\* One turn of the loops of generate_point_cloud, at any pixel they visit in
\* a frame of the enabled shape.
PixelInit ==
    /\ ServerInit
    /\ intrinsics \in Calibrations
    /\ depth_frame = NoFrame
    /\ color_frame = NoFrame
    /\ built = NotBuilt
    /\ payload = NoPayload
    /\ received = NotReceived
    /\ pix \in LoopTurns
    /\ point = NoPoint

\* Lines 71-92 for the pixel of the turn: the point appended.
UnprojectPixel ==
    /\ point = NoPoint
    /\ HasDepth(pix.depth)
    /\ point' = Unproject(intrinsics, pix.y, pix.x, pix.depth,
                          get_units(depth_frame))
    /\ UNCHANGED <<clients, lock, streaming, pipeline, bc_pc, tick, frames,
                   point_cloud_data, compressed_data, round,
                   disconnected_clients, task_pc, conn, wire, inbox, nmsgs,
                   main_pc, addr, registered, pruned, intrinsics,
                   depth_frame, color_frame, built, payload, received, pix>>

PixelNext == UnprojectPixel

PixelSpec == PixelInit /\ [][PixelNext]_vars

BuildNext ==
    \/ \E now \in Timestamps : GeneratePointCloud(now)
    \/ CompressPointCloud
    \/ ReceiveMessage

BuildSpec == BuildInit /\ [][BuildNext]_vars


----------------------------------------------------------------------------
\* The streaming task: stream_to_clients

\* wait_for_frames raises
WaitRaises(r) == r \in {"timeout", "device_gone"}

\* not depth_frame or not color_frame
FramesMissing(r) == r \in {"no_depth", "no_color"}

\* "if point_cloud_data:" and "if compressed_data:" skip a None result.
FalsyNever(v) == FALSE
Falsy(v) == v = "None"

\* The two except clauses around client.send
SendFailsClosedOnly(o) == o = "closed"
SendFails(o) == o \in {"closed", "error"}

\* self.clients -= disconnected_clients
RoundRemovalNone(cl, disc) == cl
RoundRemoval(cl, disc) == cl \ disc

RoundClients == {c \in Conn : round[c] # "-"}

\* The set iterator raises RuntimeError when the set changed size.
SetChanged == Cardinality(clients) # Cardinality(RoundClients)

\* As release, had the with block left the lock as it was.
release_never(l) == l

\* Leaving the block of "with self.lock:", at its end or by an exception,
\* releases the lock.
release(l) == "free"

\* An exception leaves the loop: the with statement releases the lock, the
\* except clause prints, the finally clause clears self.streaming.
StreamAbort ==
    /\ bc_pc' = "done"
    /\ streaming' = FALSE
    /\ lock' = IF lock = "bc" THEN release(lock) ELSE lock

\* One pass of the loop body from its top to the first await (or the
\* continue): wait for frames, build, compress, enter the with block.
StreamIteration(r, b, e) ==
    /\ bc_pc \in {"start", "sleep", "top"}
    /\ ~ThreadBlocked
    /\ main_pc = "gather"
    /\ tick < MaxTicks
    /\ FramesMissing(r) => tick + 1 < MaxTicks
    /\ IF bc_pc # "start" /\ ~streaming THEN
          /\ StreamAbort
          /\ UNCHANGED <<tick, frames, point_cloud_data, compressed_data,
                         round, disconnected_clients>>
       ELSE
          /\ tick' = tick + 1
          /\ frames' = r
          /\ IF WaitRaises(r) THEN
                /\ StreamAbort
                /\ point_cloud_data' = "unset"
                /\ compressed_data' = "unset"
                /\ UNCHANGED <<round, disconnected_clients>>
             ELSE IF FramesMissing(r) THEN
                /\ bc_pc' = "top"
                /\ streaming' = TRUE
                /\ point_cloud_data' = "unset"
                /\ compressed_data' = "unset"
                /\ UNCHANGED <<round, disconnected_clients, lock>>
             ELSE
                /\ streaming' = TRUE
                /\ point_cloud_data' = b
                /\ compressed_data' = IF Falsy(b) THEN "unset" ELSE e
                /\ IF Falsy(b) \/ Falsy(e) THEN
                      /\ bc_pc' = "sleep"
                      /\ UNCHANGED <<round, disconnected_clients, lock>>
                   ELSE IF lock # "free" THEN
                      /\ bc_pc' = "lock_wait"
                      /\ UNCHANGED <<round, disconnected_clients, lock>>
                   ELSE
                      /\ lock' = "bc"
                      /\ disconnected_clients' = {}
                      /\ round' = [c \in Conn |->
                                     IF c \in clients THEN "pending" ELSE "-"]
                      /\ bc_pc' = "iter"
    /\ UNCHANGED <<buildvars, clients, pipeline, task_pc, conn, wire, inbox, nmsgs, main_pc,
                   addr, registered, pruned>>

\* The next turn of the for loop: await client.send(compressed_data)
StreamSend(c, o) ==
    /\ bc_pc = "iter"
    /\ round[c] = "pending"
    /\ ~ThreadBlocked
    /\ main_pc = "gather"
    /\ o \in PayloadOutcomes(conn[c])
    /\ IF SetChanged THEN
          /\ StreamAbort
          /\ UNCHANGED <<round, disconnected_clients, wire>>
       ELSE
          /\ wire' = IF Written(o)
                     THEN [wire EXCEPT ![c] = Append(@, Binary(tick))]
                     ELSE wire
          /\ round' = [round EXCEPT ![c] =
                          IF o = "suspend" THEN "sending"
                          ELSE IF o = "done" THEN "ok" ELSE "fail"]
          /\ disconnected_clients' = IF SendFails(o)
                                     THEN disconnected_clients \cup {c}
                                     ELSE disconnected_clients
          /\ bc_pc' = IF o = "suspend" THEN "send_wait" ELSE "iter"
          /\ UNCHANGED <<streaming, lock>>
    /\ UNCHANGED <<buildvars, clients, pipeline, tick, frames, point_cloud_data,
                   compressed_data, task_pc, conn, inbox, nmsgs, main_pc,
                   addr, registered, pruned>>

\* The suspended send returns, or raises because the connection was closed.
StreamSendResume(c) ==
    /\ bc_pc = "send_wait"
    /\ round[c] = "sending"
    /\ EventLoopIdle
    /\ conn[c] \in {"open", "closed"}
    /\ LET o == IF conn[c] = "open" THEN "done" ELSE "closed" IN
          /\ round' = [round EXCEPT ![c] = IF SendFails(o) THEN "fail" ELSE "ok"]
          /\ disconnected_clients' = IF SendFails(o)
                                     THEN disconnected_clients \cup {c}
                                     ELSE disconnected_clients
    /\ bc_pc' = "iter"
    /\ UNCHANGED <<buildvars, clients, lock, streaming, pipeline, tick, frames,
                   point_cloud_data, compressed_data, task_pc, conn, wire,
                   inbox, nmsgs, main_pc,
                   addr, registered, pruned>>

\* The for loop is exhausted: prune, leave the with block, await sleep.
StreamRoundEnd ==
    /\ bc_pc = "iter"
    /\ \A c \in Conn : round[c] # "pending"
    /\ ~ThreadBlocked
    /\ main_pc = "gather"
    /\ IF SetChanged THEN
          /\ StreamAbort
          /\ UNCHANGED <<clients, pruned>>
       ELSE
          /\ clients' = RoundRemoval(clients, disconnected_clients)
          /\ pruned' = pruned \cup (clients \ clients')
          /\ lock' = release(lock)
          /\ bc_pc' = "sleep"
          /\ UNCHANGED streaming
    /\ round' = [c \in Conn |-> "-"]
    /\ disconnected_clients' = {}
    /\ UNCHANGED <<buildvars, pipeline, tick, frames, point_cloud_data, compressed_data,
                   task_pc, conn, wire, inbox, nmsgs, main_pc,
                   addr, registered>>

Broadcaster ==
    \/ \E r \in FrameResults, b \in {"data", "None"}, e \in {"bytes", "None"} :
          StreamIteration(r, b, e)
    \/ \E c \in Conn, o \in {"done", "suspend", "closed", "error"} : StreamSend(c, o)
    \/ \E c \in Conn : StreamSendResume(c)
    \/ StreamRoundEnd

----------------------------------------------------------------------------
\* One task per connection: handle_client

\* The except clauses inside the receive loop: JSONDecodeError, then Exception.
InnerCatchesJSONOnly(exc) == exc = "JSONDecodeError"
InnerCatches(exc) ==
    exc \in {"JSONDecodeError", "AttributeError", "ConnectionClosed"}

\* self.clients.discard(websocket)
DiscardNothing(cl, c) == cl
DiscardAll(cl, c) == {}
Discard(cl, c) == cl \ {c}

\* set.discard raises nothing, whether or not the element is in the set;
\* set.remove would raise KeyError for an element that is not.
RemoveRaises(cl, c) == c \notin cl
DiscardRaises(cl, c) == FALSE

\* As HandlerFinally, had the finally clause not taken self.lock.
HandlerFinallyUnlocked(c, cl) ==
    /\ clients' = Discard(cl, c)
    /\ task_pc' = [task_pc EXCEPT ![c] = "done"]
    /\ conn' = [conn EXCEPT ![c] = "closed"]

\* The finally clause, entered with self.clients = cl.  When the task has
\* returned, the server closes its connection.
HandlerFinally(c, cl) ==
    IF lock # "free" THEN
       /\ task_pc' = [task_pc EXCEPT ![c] = "lock_discard"]
       /\ clients' = cl
       /\ UNCHANGED conn
    ELSE IF DiscardRaises(cl, c) THEN
       /\ clients' = cl
       /\ task_pc' = [task_pc EXCEPT ![c] = "failed"]
       /\ conn' = [conn EXCEPT ![c] = "closed"]
    ELSE
       /\ clients' = Discard(cl, c)
       /\ task_pc' = [task_pc EXCEPT ![c] = "done"]
       /\ conn' = [conn EXCEPT ![c] = "closed"]

\* As HandleClientStart, had the task awaited between registering and sending
\* the welcome.
HandleClientStartYields(c, o) ==
    /\ EventLoopIdle
    /\ task_pc[c] = "idle"
    /\ conn[c] # "none"
    /\ o \in SendOutcomes(conn[c])
    /\ lock = "free"
    /\ clients' = clients \cup {c}
    /\ registered' = registered \cup {c}
    /\ task_pc' = [task_pc EXCEPT ![c] = "welcome"]
    /\ UNCHANGED <<buildvars, lock, streaming, pipeline, bc_pc, tick, frames,
                   point_cloud_data, compressed_data, round,
                   disconnected_clients, conn, wire, inbox, nmsgs, main_pc,
                   addr, pruned>>

\* From the start of the task to its first await: register, send the welcome.
HandleClientStart(c, o) ==
    /\ EventLoopIdle
    /\ task_pc[c] = "idle"
    /\ conn[c] # "none"
    /\ o \in SendOutcomes(conn[c])
    /\ IF lock # "free" THEN
          /\ task_pc' = [task_pc EXCEPT ![c] = "lock_add"]
          /\ UNCHANGED <<clients, conn, wire, registered>>
       ELSE IF o = "closed" THEN
          /\ registered' = registered \cup {c}
          /\ HandlerFinally(c, clients \cup {c})
          /\ UNCHANGED wire
       ELSE
          /\ clients' = clients \cup {c}
          /\ registered' = registered \cup {c}
          /\ wire' = [wire EXCEPT ![c] = Append(@, Welcome(c))]
          /\ task_pc' = [task_pc EXCEPT ![c] =
                            IF o = "suspend" THEN "welcome" ELSE "recv"]
          /\ UNCHANGED conn
    /\ UNCHANGED <<buildvars, lock, streaming, pipeline, bc_pc, tick, frames,
                   point_cloud_data, compressed_data, round,
                   disconnected_clients, inbox, nmsgs, main_pc,
                   addr, pruned>>

\* The exception the body of the receive loop raises on message m, when the
\* send of the reply would end as o.
MessageRaises(m, o) ==
    LET data == json_loads(m) IN
    IF data.tag = "JSONDecodeError" THEN "JSONDecodeError"
    ELSE IF data.tag # "dict" THEN "AttributeError"
    ELSE IF data.type = "ping" /\ o = "closed" THEN "ConnectionClosed"
    ELSE "none"

\* The body of the receive loop writes a pong.
MessageReplies(m, o) ==
    LET data == json_loads(m) IN
    data.tag = "dict" /\ data.type = "ping" /\ Written(o)

\* One turn of "async for message in websocket": the next message, or the
\* end of the stream.
HandleClientRecv(c, o) ==
    /\ EventLoopIdle
    /\ task_pc[c] = "recv"
    /\ o \in SendOutcomes(conn[c])
    /\ \/ /\ inbox[c] # <<>>
          /\ LET m == Head(inbox[c])
                 exc == MessageRaises(m, o)
                 reply == MessageReplies(m, o) IN
                /\ inbox' = [inbox EXCEPT ![c] = Tail(@)]
                /\ wire' = IF reply
                           THEN [wire EXCEPT ![c] = Append(@, Pong)]
                           ELSE wire
                /\ IF exc # "none" /\ ~InnerCatches(exc) THEN
                      HandlerFinally(c, clients)
                   ELSE
                      /\ task_pc' = [task_pc EXCEPT ![c] =
                                        IF reply /\ o = "suspend"
                                        THEN "pong" ELSE "recv"]
                      /\ UNCHANGED <<clients, conn>>
       \/ /\ inbox[c] = <<>>
          /\ conn[c] = "closed"
          /\ HandlerFinally(c, clients)
          /\ UNCHANGED <<wire, inbox>>
    /\ UNCHANGED <<buildvars, lock, streaming, pipeline, bc_pc, tick, frames,
                   point_cloud_data, compressed_data, round,
                   disconnected_clients, nmsgs, main_pc,
                   addr, registered, pruned>>

\* A suspended send of the task returns, or raises ConnectionClosed.
HandleClientResume(c) ==
    /\ EventLoopIdle
    /\ task_pc[c] \in {"welcome", "pong"}
    /\ conn[c] \in {"open", "closed"}
    /\ IF conn[c] = "open"
          \/ (task_pc[c] = "pong" /\ InnerCatches("ConnectionClosed")) THEN
          /\ task_pc' = [task_pc EXCEPT ![c] = "recv"]
          /\ UNCHANGED <<clients, conn>>
       ELSE
          HandlerFinally(c, clients)
    /\ UNCHANGED <<buildvars, lock, streaming, pipeline, bc_pc, tick, frames,
                   point_cloud_data, compressed_data, round,
                   disconnected_clients, wire, inbox, nmsgs, main_pc,
                   addr, registered, pruned>>

HandleClient(c) ==
    \/ \E o \in {"done", "suspend", "closed"} : HandleClientStart(c, o)
    \/ \E o \in {"done", "suspend", "closed"} : HandleClientRecv(c, o)
    \/ HandleClientResume(c)

----------------------------------------------------------------------------
\* The subscribers

\* The websocket object of a connection is no longer referenced once its
\* task has ended and the registry does not hold it; the interpreter can
\* then free it.
Unreferenced(d) == task_pc[d] = "done" /\ d \notin clients

\* Where the interpreter can place a new websocket object: at the address
\* of an object that is no longer referenced, or at an address not used so
\* far (the lowest one: which one makes no difference).
FreeAddrs ==
    LET unused == {a \in Addr : \A d \in Conn : addr[d] # a} IN
    {a \in Addr : \E d \in Conn : addr[d] = a /\ Unreferenced(d)
                  /\ \A e \in Conn : addr[e] = a => Unreferenced(e)}
    \cup {a \in unused : \A b \in unused : a <= b}

\* Connections are numbered in the order in which they are made; the server
\* creates the websocket object of the connection.
ClientConnect(c) ==
    /\ EventLoopIdle
    /\ conn[c] = "none"
    /\ \A d \in Conn : d < c => conn[d] # "none"
    /\ conn' = [conn EXCEPT ![c] = "open"]
    /\ \E a \in FreeAddrs : addr' = [addr EXCEPT ![c] = a]
    /\ UNCHANGED <<buildvars, clients, lock, streaming, pipeline, bc_pc, tick, frames,
                   point_cloud_data, compressed_data, round,
                   disconnected_clients, task_pc, wire, inbox, nmsgs, main_pc,
                   registered, pruned>>

ClientSend(c, m) ==
    /\ main_pc = "gather"
    /\ ~ThreadBlocked
    /\ conn[c] = "open"
    /\ nmsgs < MaxMsgs
    /\ nmsgs' = nmsgs + 1
    /\ inbox' = [inbox EXCEPT ![c] = Append(@, m)]
    /\ UNCHANGED <<buildvars, clients, lock, streaming, pipeline, bc_pc, tick, frames,
                   point_cloud_data, compressed_data, round,
                   disconnected_clients, task_pc, conn, wire, main_pc,
                   addr, registered, pruned>>

\* The subscriber stops reading: sends to it no longer complete.
ClientStall(c) ==
    /\ main_pc = "gather"
    /\ ~ThreadBlocked
    /\ conn[c] = "open"
    /\ conn' = [conn EXCEPT ![c] = "stalled"]
    /\ UNCHANGED <<buildvars, clients, lock, streaming, pipeline, bc_pc, tick, frames,
                   point_cloud_data, compressed_data, round,
                   disconnected_clients, task_pc, wire, inbox, nmsgs, main_pc,
                   addr, registered, pruned>>

ClientClose(c) ==
    /\ main_pc = "gather"
    /\ ~ThreadBlocked
    /\ conn[c] \in {"open", "stalled"}
    /\ conn' = [conn EXCEPT ![c] = "closed"]
    /\ UNCHANGED <<buildvars, clients, lock, streaming, pipeline, bc_pc, tick, frames,
                   point_cloud_data, compressed_data, round,
                   disconnected_clients, task_pc, wire, inbox, nmsgs, main_pc,
                   addr, registered, pruned>>

Subscriber(c) ==
    \/ ClientConnect(c)
    \/ \E m \in Messages : ClientSend(c, m)
    \/ ClientStall(c)
    \/ ClientClose(c)

----------------------------------------------------------------------------
\* start_server and main

\* server.wait_closed() returns once server.close() was called; nothing
\* calls it.
WaitClosedReturns == FALSE

\* asyncio.gather(streaming_task, server.wait_closed()) returns.
GatherReturns == bc_pc = "done" /\ WaitClosedReturns

\* The finally clause of a handle_client task that is cancelled at its
\* await; a task that never started just ends.  A task that is waiting in
\* lock.acquire() when the process is interrupted gets the KeyboardInterrupt
\* there: it leaves its with statement without having run the add or the
\* discard inside.
Cancelled(pc) ==
    IF pc \in {"idle", "welcome", "recv", "pong"} THEN "done"
    ELSE IF pc \in {"lock_add", "lock_discard"} THEN "interrupted"
    ELSE pc

\* start_server leaves the gather, because it returned or because the main
\* task was cancelled (interrupt), and runs its finally clause; a
\* cancellation reaches the streaming task through the gather.  asyncio.run
\* then cancels the tasks that are left: CancelledError is raised at the
\* await of each handle_client task, whose finally clause discards its
\* websocket.  An interrupt also ends a process whose thread is stuck in
\* lock.acquire().
StartServerFinally(interrupt) ==
    /\ main_pc = "gather"
    /\ ThreadBlocked => interrupt
    /\ bc_pc \notin {"top", "iter"}
    /\ interrupt \/ GatherReturns
    /\ bc_pc' = "done"
    /\ lock' = "free"
    /\ streaming' = FALSE
    /\ pipeline' = "stopped"
    /\ main_pc' = "stopped"
    /\ round' = [c \in Conn |-> "-"]
    /\ disconnected_clients' = {}
    /\ task_pc' = [c \in Conn |->
                     IF conn[c] = "none" THEN task_pc[c] ELSE Cancelled(task_pc[c])]
    /\ clients' = {c \in clients : Cancelled(task_pc[c]) # "done"}
    /\ conn' = [c \in Conn |-> IF conn[c] = "none" THEN "none" ELSE "closed"]
    /\ UNCHANGED <<buildvars, tick, frames, point_cloud_data, compressed_data, wire,
                   inbox, nmsgs, addr, registered, pruned>>

----------------------------------------------------------------------------
Next ==
    \/ Broadcaster
    \/ \E c \in Conn : HandleClient(c)
    \/ \E c \in Conn : Subscriber(c)
    \/ \E i \in BOOLEAN : StartServerFinally(i)

Spec == Init /\ [][Next]_vars

\* The event loop runs every task that is ready; the subscribers and the
\* interrupt are under no obligation.
FairSpec ==
    /\ Spec
    /\ WF_vars(Broadcaster)
    /\ \A c \in Conn : WF_vars(HandleClient(c))
    /\ WF_vars(StartServerFinally(FALSE))

TypeOK ==
    /\ clients \subseteq Conn
    /\ lock \in {"free", "bc"}
    /\ streaming \in BOOLEAN
    /\ pipeline \in {"started", "stopped"}
    /\ bc_pc \in {"start", "top", "iter", "send_wait", "sleep", "lock_wait", "done"}
    /\ tick \in 0..MaxTicks
    /\ frames \in FrameResults \cup {"none"}
    /\ point_cloud_data \in {"unset", "data", "None"}
    /\ compressed_data \in {"unset", "bytes", "None"}
    /\ round \in [Conn -> {"-", "pending", "sending", "ok", "fail"}]
    /\ disconnected_clients \subseteq Conn
    /\ task_pc \in [Conn -> {"idle", "lock_add", "welcome", "recv", "pong",
                             "lock_discard", "done", "failed",
                             "interrupted"}]
    /\ conn \in [Conn -> {"none", "open", "stalled", "closed"}]
    /\ \A c \in Conn : Len(wire[c]) <= 1 + MaxTicks + MaxMsgs
    /\ nmsgs \in 0..MaxMsgs
    /\ \A c \in Conn : Len(inbox[c]) <= nmsgs
    /\ main_pc \in {"gather", "stopped"}
    /\ addr \in [Conn -> Addr \cup {0}]
    /\ registered \subseteq Conn
    /\ pruned \subseteq Conn
    /\ intrinsics = Calibration
    /\ depth_frame = NoFrame /\ color_frame = NoFrame /\ built = NotBuilt
    /\ payload = NoPayload /\ received = NotReceived
    /\ pix = NoPixel /\ point = NoPoint

----------------------------------------------------------------------------
\* Properties

Last(s) == s[Len(s)]

\* C1: fan-out isolation on send failure.  A send that fails leaves the
\* round going, with the registry and the other clients' turns untouched;
\* when the round ends every client of the round has had its send, and the
\* registry is then exactly the clients of the round whose send succeeded.
C1_FanOutIsolation ==
    [][ /\ \A c \in Conn :
              (round[c] \in {"pending", "sending"} /\ round'[c] = "fail")
              => /\ bc_pc' = "iter"
                 /\ clients' = clients
                 /\ \A d \in Conn \ {c} : round'[d] = round[d]
        /\ (bc_pc = "iter" /\ bc_pc' = "sleep")
              => /\ \A c \in RoundClients : round[c] \in {"ok", "fail"}
                 /\ clients' = {c \in RoundClients : round[c] = "ok"}
      ]_vars

\* A round has ended in which the send to one client raised an error, and
\* that client was pruned while its own task is still in its receive loop,
\* next to a client that got the payload and is still registered.
C1_Witness ==
    /\ bc_pc = "sleep"
    /\ \E c, d \in Conn :
          /\ c \notin clients /\ task_pc[c] = "recv" /\ conn[c] = "open"
          /\ d \in clients /\ Last(wire[d]) = Binary(tick)

\* C2: no reachable state has the streaming task suspended in a send,
\* holding the registry lock, while a handle_client task waits for the lock.
C2_NoLockWaitDuringSend ==
    ~ ( /\ bc_pc = "send_wait"
        /\ lock = "bc"
        /\ \E c \in Conn : task_pc[c] \in {"lock_add", "lock_discard"} )

StalledSend(c) ==
    bc_pc = "send_wait" /\ round[c] = "sending" /\ conn[c] = "stalled"

\* C3: stalled-client isolation.  When the send to a client never completes,
\* every other client of the round still gets its send, the stalled client
\* is eventually removed from the registry, and the round eventually ends.
C3_StalledClientIsolation ==
    \A c \in Conn :
        /\ StalledSend(c) ~> (c \notin clients)
        /\ StalledSend(c) ~> (bc_pc \in {"sleep", "done"})
        /\ \A d \in Conn :
              (StalledSend(c) /\ round[d] = "pending") ~> (round[d] # "pending")

PingPending(c) ==
    /\ conn[c] = "open"
    /\ task_pc[c] = "recv"
    /\ inbox[c] # <<>>
    /\ Head(inbox[c]) = MsgPing

\* C5: liveness reply.  A ping that has arrived on an open connection is
\* eventually answered by one more pong on that connection (or the
\* connection is no longer open).
C5_PingYieldsPong ==
    \A c \in Conn : \A k \in 0..MaxMsgs :
        (PingPending(c) /\ Count(wire[c], "pong") = k)
            ~> (conn[c] # "open" \/ Count(wire[c], "pong") > k)

\* C6: malformed control messages are harmless.  When a task takes a message
\* that is not a ping (not JSON, JSON of the wrong shape, another type),
\* nothing is written to any connection, the connection and the registry
\* are unchanged and the task is back in its receive loop.
C6_MalformedIgnored ==
    [][ \A c \in Conn :
          ( /\ task_pc[c] = "recv"
            /\ inbox[c] # <<>>
            /\ inbox'[c] = Tail(inbox[c])
            /\ Head(inbox[c]) # MsgPing )
          => /\ wire' = wire
             /\ conn' = conn
             /\ clients' = clients
             /\ task_pc'[c] = "recv"
      ]_vars

\* The only client has sent its messages, none was a ping that got a reply,
\* all were taken, and the client is still registered, open and served.
C6_Witness ==
    \E c \in Conn :
        /\ nmsgs > 0
        /\ \A d \in Conn : inbox[d] = <<>> /\ (d # c => conn[d] = "none")
        /\ conn[c] = "open"
        /\ task_pc[c] = "recv"
        /\ c \in clients
        /\ Count(wire[c], "pong") = 0

C8_CaptureUnavailableNotFatal ==
    (main_pc = "gather" /\ frames \in {"timeout", "no_depth", "no_color"})
        => bc_pc # "done"

\* C9: permanent capture failure triggers shutdown.  Once the streaming task
\* has ended on a permanent failure of the frame source, start_server
\* eventually stops the pipeline and the server.
C9_FailureLeadsToShutdown ==
    (bc_pc = "done" /\ frames = "device_gone") ~> (main_pc = "stopped")

\* C10: build and encode failures are confined to their tick.  An iteration
\* in which generate_point_cloud or compress_point_cloud returns None writes
\* to no connection, leaves the registry and the lock as they were and ends
\* in the sleep before the next iteration, the loop still on.
C10_BuildEncodeFailureConfined ==
    [][ ( /\ tick' = tick + 1
          /\ (point_cloud_data' = "None" \/ compressed_data' = "None") )
        => /\ wire' = wire
           /\ clients' = clients
           /\ lock' = lock
           /\ bc_pc' = "sleep"
           /\ streaming'
      ]_vars

\* The encoder failed in a tick with a client registered: the streaming
\* task sleeps, the client has its welcome and no payload of this tick.
C10_Witness ==
    /\ bc_pc = "sleep"
    /\ compressed_data = "None"
    /\ \E c \in clients :
          wire[c] # <<>> /\ Last(wire[c]) # Binary(tick)

InRound(pc) == pc \in {"iter", "send_wait"}

\* C11: atomic membership per round.  The clients of a round are the
\* registry as it is when the round starts; while the round is in progress
\* neither the registry nor the clients of the round change, so a round only
\* ever sees the whole registry of its start; and a payload is written only
\* to a client of the round whose turn has come.
C11_RoundMembershipAtomic ==
    [][ /\ (~InRound(bc_pc) /\ InRound(bc_pc'))
              => RoundClients' = clients /\ clients' = clients
        /\ (InRound(bc_pc) /\ InRound(bc_pc'))
              => RoundClients' = RoundClients /\ clients' = clients
        /\ InRound(bc_pc') => RoundClients' = clients'
        /\ \A c \in Conn :
              (wire'[c] # wire[c] /\ Last(wire'[c]).type = "binary")
              => round[c] = "pending" /\ c \in clients
      ]_vars

\* A round is in progress, one send suspended, and the task of a connection
\* made meanwhile has come to register its websocket: it is not among the
\* clients of the round.
C11_Witness ==
    /\ bc_pc = "send_wait"
    /\ \E c, d \in Conn :
          /\ round[d] = "sending"
          /\ task_pc[c] = "lock_add"
          /\ round[c] = "-"
          /\ c \notin clients

\* C12: per-client tick order.  On every connection the binary payloads
\* appear in the order of their ticks: of two payloads the later one is of
\* a strictly later tick, so none comes out of order and none comes twice.
C12_TickOrder ==
    \A c \in Conn : \A i, j \in 1..Len(wire[c]) :
        (i < j /\ wire[c][i].type = "binary" /\ wire[c][j].type = "binary")
            => wire[c][i].v < wire[c][j].v

\* A client has received the payloads of two rounds.
C12_Witness ==
    \E c \in Conn : Count(wire[c], "binary") >= 2

PayloadWritten(c) ==
    wire'[c] # wire[c] /\ Last(wire'[c]).type = "binary"

\* C13: no payloads after removal.  A round that ends removes from the
\* registry every client whose send failed, and a payload is only ever
\* written to a websocket that is in the registry, that the streaming task
\* has not removed before and whose own task has not ended.
C13_NoPayloadAfterRemoval ==
    [][ /\ (bc_pc = "iter" /\ bc_pc' = "sleep")
              => \A c \in disconnected_clients :
                    c \notin clients' /\ c \in pruned'
        /\ \A c \in Conn :
              PayloadWritten(c)
              => c \in clients /\ c \notin pruned /\ task_pc[c] # "done"
      ]_vars

\* A round has sent the payload of its tick to one client while another,
\* removed by an earlier round after a failed send, still connected and its
\* task in the receive loop, is not among the clients of the round.
C13_Witness ==
    /\ bc_pc = "iter"
    /\ \E c, d \in Conn :
          /\ c \in pruned /\ task_pc[c] = "recv" /\ conn[c] = "open"
          /\ round[c] = "-"
          /\ round[d] = "ok" /\ Last(wire[d]) = Binary(tick)

\* C14: unregister is idempotent.  When the finally clause of a task runs
\* its discard on a websocket that is registered no more (the streaming task
\* has removed it), the registry stays as it is and the task ends without
\* an error.
C14_UnregisterIdempotent ==
    [][ \A c \in Conn :
          ( /\ c \in registered /\ c \notin clients
            /\ task_pc[c] \in {"welcome", "recv", "pong"}
            /\ task_pc'[c] \notin {"welcome", "recv", "pong", "lock_discard"}
            /\ main_pc' = "gather" )
          => clients' = clients /\ task_pc'[c] = "done"
      ]_vars

\* The streaming task removed a websocket after a failed send, and later,
\* the server still running, the websocket's own task ended.
C14_Witness ==
    \E c \in Conn :
        c \in pruned /\ task_pc[c] = "done" /\ main_pc = "gather"

\* Calls of self.clients.add so far: one by each task that got that far.
Registrations == Cardinality(registered)

\* Websockets whose task has run self.clients.discard: the tasks that ended
\* after they had registered.
Discarded == {c \in registered : task_pc[c] = "done"}

\* Unregistrations so far: the discards of the tasks and the removals by
\* the streaming task.
Unregistrations == Cardinality(Discarded) + Cardinality(pruned)

\* Websockets that were unregistered at least once.
Unregistered == Discarded \cup pruned

ClipAtZero(n) == IF n < 0 THEN 0 ELSE n

C16_TeardownComplete ==
    main_pc = "stopped"
        => /\ bc_pc = "done"
           /\ pipeline = "stopped"
           /\ \A c \in Conn :
                 conn[c] # "none"
                 => /\ task_pc[c] \in {"done", "failed", "interrupted"}
                    /\ conn[c] = "closed"
           /\ clients = {}

\* C17: the client lifecycle is one-way.  A websocket enters the registry
\* only if it was never registered before, so one that was removed is never
\* added back; a websocket that was unregistered is not in the registry;
\* and a websocket is among the clients of a round only when its welcome
\* has been written to its connection.
C17_LifecycleOneWay ==
    [][ \A c \in Conn :
          /\ (c \notin clients /\ c \in clients') => c \notin registered
          /\ c \in Unregistered' => c \notin clients'
          /\ round'[c] # "-" => Count(wire'[c], "welcome") = 1
      ]_vars

\* A websocket that the streaming task removed stays out of the registry
\* although its connection is open and its task still serves it; the other
\* client is registered.
C17_Witness ==
    /\ bc_pc = "sleep"
    /\ \E c, d \in Conn :
          /\ c \in pruned /\ c \notin clients
          /\ conn[c] = "open" /\ task_pc[c] = "recv"
          /\ Count(wire[c], "pong") = 1
          /\ d \in clients

\* C18: latest-value broadcast, no backlog.  Every payload that is written
\* is the one built in the current iteration, written by the round of that
\* iteration; while a round is in progress there is exactly the snapshot
\* and the payload of its iteration; and outside a round no client has a
\* send outstanding.
C18_LatestValueOnly ==
    [][ /\ \A c \in Conn :
              PayloadWritten(c)
              => /\ Last(wire'[c]).v = tick
                 /\ bc_pc = "iter" /\ lock = "bc"
                 /\ compressed_data = "bytes"
                 /\ tick' = tick
        /\ InRound(bc_pc')
              => point_cloud_data' = "data" /\ compressed_data' = "bytes"
        /\ ~InRound(bc_pc') => \A c \in Conn : round'[c] = "-"
        /\ tick' # tick => ~InRound(bc_pc)
      ]_vars

\* A client that registered after the round of the first tick has received
\* the payload of the second tick and nothing of the first, which another
\* client did receive.
C18_Witness ==
    \E c, d \in Conn :
        /\ Len(wire[c]) = 2
        /\ wire[c][2].type = "binary" /\ wire[c][2].v = tick
        /\ \E i \in 1..Len(wire[d]) :
              wire[d][i].type = "binary" /\ wire[d][i].v < tick

\* C19: fresh client ids.  The welcome of a connection carries the id of
\* its websocket, and the ids in the welcomes of two different connections
\* are different.
C19_FreshClientIds ==
    \A c, d \in Conn :
        (wire[c] # <<>> /\ wire[d] # <<>>)
            => /\ wire[c][1] = [type |-> "welcome", v |-> id(c)]
               /\ c # d => wire[c][1].v # wire[d][1].v

\* The pixels the loops of generate_point_cloud visit, and those of them
\* that have a depth.
Sampled(df) ==
    {p \in Pixels(df.height, df.width) :
        p[1] % Stride = 0 /\ p[2] % Stride = 0}
WithDepth(df) == {p \in Sampled(df) : df.px[p] # 0}

\* The place of pixel p among the pixels with depth, rows first.
Rank(df, p) ==
    Cardinality({q \in WithDepth(df) :
                    q[1] < p[1] \/ (q[1] = p[1] /\ q[2] <= p[2])})

SameShape(df, cf) == df.height = cf.height /\ df.width = cf.width

\* C20: point-cloud well-formedness.  For a depth and a colour frame of the
\* same shape, generate_point_cloud (with self.intrinsics set) returns a
\* snapshot; its points and colors have the same length, which is the
\* number of stride-sampled pixels with nonzero depth; the i-th point and
\* the i-th color are those of the i-th such pixel, every point has a
\* positive depth, and the snapshot is empty when every sampled depth is 0.
C20_PointCloudWellFormed ==
    (built # NotBuilt /\ SameShape(depth_frame, color_frame))
    => /\ intrinsics.set => built.tag = "dict"
       /\ built.tag = "dict"
          => /\ Len(built.points) = Len(built.colors)
             /\ Len(built.points) = Cardinality(WithDepth(depth_frame))
             /\ \A i \in 1..Len(built.points) : built.points[i][3][1] > 0
             /\ \A p \in WithDepth(depth_frame) :
                   LET i == Rank(depth_frame, p) IN
                   /\ built.points[i] =
                         Unproject(intrinsics, p[1], p[2],
                                   depth_frame.px[p], get_units(depth_frame))
                   /\ built.colors[i] = BGR2RGB(color_frame.px[p])
             /\ (\A p \in Sampled(depth_frame) : depth_frame.px[p] = 0)
                   => built.points = <<>> /\ built.colors = <<>>

\* A snapshot was built from frames of the same shape in which two sampled
\* pixels have a depth, a sampled pixel has none and a pixel that is not
\* sampled has one.
C20_Witness ==
    /\ built.tag = "dict"
    /\ SameShape(depth_frame, color_frame)
    /\ Len(built.points) >= 2
    /\ \E p \in Sampled(depth_frame) : depth_frame.px[p] = 0
    /\ \E p \in Pixels(depth_frame.height, depth_frame.width) \ Sampled(depth_frame) :
          depth_frame.px[p] # 0

\* C21: builder failure is an error result.  Whenever the depth frame and
\* the colour frame differ in shape, or self.intrinsics is None,
\* generate_point_cloud returns None.
C21_BuilderFailureIsNone ==
    ( /\ built # NotBuilt
      /\ (~SameShape(depth_frame, color_frame) \/ ~intrinsics.set) )
    => built = None

RECURSIVE GCD(_, _)
GCD(m, n) == IF n = 0 THEN m ELSE GCD(n, m % n)

\* A fraction (its denominator positive) in lowest terms.
Reduced(a) ==
    LET g == GCD(IF a[1] < 0 THEN 0 - a[1] ELSE a[1], a[2])
    IN  <<a[1] \div g, a[2] \div g>>

\* Two numbers kept as fractions are the same number.
SameNumber(a, b) == Reduced(a) = Reduced(b)

Times(a, n) == Reduced(<<Reduced(a)[1] * n, Reduced(a)[2]>>)

\* C23: unprojection.  The point built for a sampled pixel (x, y) with raw
\* depth d > 0 is [x3d, y3d, z] with z = d * scale, x3d * fx = (x - ppx) * z
\* and y3d * fy = (y - ppy) * z; and with fx = fy = 600, ppx = 320,
\* ppy = 240 and scale 0.001 the pixel (x = 320, y = 240) with raw depth
\* 1000 gives [0, 0, 1].
C23_Unprojection ==
    point # NoPoint
    => LET scale == get_units(depth_frame)
           z == point[3]
       IN  /\ Len(point) = 3
           /\ Reduced(z) = Reduced(<<pix.depth * scale[1], scale[2]>>)
           /\ Times(point[1], intrinsics.fx) = Times(z, pix.x - intrinsics.ppx)
           /\ Times(point[2], intrinsics.fy) = Times(z, pix.y - intrinsics.ppy)
           /\ ( /\ intrinsics = Calibration
                /\ pix = [y |-> 240, x |-> 320, depth |-> 1000] )
              => /\ Reduced(point[1]) = <<0, 1>>
                 /\ Reduced(point[2]) = <<0, 1>>
                 /\ Reduced(point[3]) = <<1, 1>>

\* The loops have come to pixel (x = 320, y = 240), whose raw depth is 1000,
\* with fx = fy = 600, ppx = 320, ppy = 240, and the point has been built.
C23_Witness ==
    /\ point # NoPoint
    /\ intrinsics = Calibration
    /\ pix = [y |-> 240, x |-> 320, depth |-> 1000]

\* A handle_client task that has started and has not ended.
Running(pc) == pc \in {"lock_add", "welcome", "recv", "pong", "lock_discard"}

\* C24: no orphan members.  Every websocket in the registry belongs to a
\* connection whose handle_client task has started and has not ended.
C24_NoOrphanMembers ==
    \A c \in clients : Running(task_pc[c])

\* C25: the registry lock is held only inside a critical section.  Whenever
\* the streaming task is outside its round (the with block of lines 150-162)
\* the lock is free; the add and the discard of handle_client have no await
\* in them and are over within one step.  That covers the state after a round
\* in which sends failed and the state after the streaming loop has ended.
C25_LockOnlyInCriticalSection ==
    ~InRound(bc_pc) => lock = "free"

\* The first round has ended with a websocket pruned for a failed send, and
\* the streaming task is in its sleep.
C25_Witness ==
    /\ bc_pc = "sleep"
    /\ tick = 1
    /\ pruned # {}
    /\ lock = "free"

\* C26: the streaming task yields every tick.  Every frame wait but the first
\* begins after the task has given control back to the event loop since the
\* frame wait before: it begins from the sleep that ends an iteration, never
\* from the top of the loop reached without an await.
C26_YieldsEveryTick ==
    [][ tick' = tick + 1 => bc_pc \in {"start", "sleep"} ]_vars
====
